---- MODULE Spec2Model ----
(***************************************************************************)
(* The terminal visualizer of src/main.rs: struct Visualizer (peak,        *)
(* prev_columns), Visualizer::new, Visualizer::render and color_for.       *)
(*                                                                         *)
(* Numbers.  Every f32 of the program is represented in fixed point: the   *)
(* integer v stands for the value v / SCALE.  An f32 multiplication or     *)
(* division rounds its result to the nearest representable value; here it  *)
(* rounds to the nearest multiple of 1 / SCALE (RoundDiv), once per        *)
(* operation and in the order the code performs the operations.  The row   *)
(* counts, the band index and the chunk bounds are usize and are plain     *)
(* integers.                                                               *)
(***************************************************************************)
EXTENDS Integers, Sequences, FiniteSets, TLC

\* ------------------------------------------------------------------ f32

\* Units per 1.0 of the fixed-point representation of f32.
SCALE == 10000

\* x / d rounded to the nearest integer, for x >= 0 and d > 0 (halves round
\* away from zero, as f32::round does; the quotient of an f32 operation is
\* rounded to the nearest representable value).
RoundDiv(x, d) == (x + d \div 2) \div d

\* The decimal literal n / d as an f32.
Lit(n, d) == RoundDiv(n * SCALE, d)

\* a * b on f32.
MulF(a, b) == RoundDiv(a * b, SCALE)

\* a / b on f32.
DivF(a, b) == RoundDiv(a * SCALE, b)

\* f32::max.
MaxF(a, b) == IF a >= b THEN a ELSE b

\* f32::clamp(lo, hi).
Clamp(x, lo, hi) == IF x < lo THEN lo ELSE IF x > hi THEN hi ELSE x

\* std::cmp::min on usize.
min(a, b) == IF a <= b THEN a ELSE b

\* ------------------------------------------------------------ constants

NUM_BARS == 64
MAX_HEIGHT == 21
TOTAL_ROWS == MAX_HEIGHT
mid_row == TOTAL_ROWS \div 2
top_rows == mid_row

DECAY == Lit(92, 100)
blend == Lit(65, 100)
PEAK_FLOOR == Lit(1, 1000)
INITIAL_PEAK == Lit(25, 100)

\* ---------------------------------------------------------------- state

VARIABLES
    peak,          \* Visualizer.peak
    prev_columns,  \* Visualizer.prev_columns
    stdout,        \* the display sink: prints so far, cleared screens, last frame
    panicked,      \* the process aborted in copy_from_slice
    samples,       \* the argument of the last render call
    columns,       \* render's local `columns` in the last non-empty call
    frame_peak,    \* render's local `frame_peak` in the last non-empty call
    eff_peak,      \* render's local `peak` (line 144) in the last non-empty call
    norm,          \* the pairs (norm_pos, norm_neg) of the last non-empty call
    calls,         \* number of non-empty render calls so far
    zero_p0,       \* stored peak when the current run of frame_peak = 0 calls began
    zero_n,        \* length of the current run of calls with frame_peak = 0
    first_norm,    \* norm of the first non-empty call
    steady         \* per band and polarity: norm equalled first_norm in every call

vars == <<peak, prev_columns, stdout, panicked, samples, columns, frame_peak,
          eff_peak, norm, calls, zero_p0, zero_n, first_norm, steady>>

\* --------------------------------------------------------------- Bander

\* The accumulators of one chunk before its first sample.
ChunkInit ==
    [pos_peak |-> 0, pos_sum |-> 0, pos_count |-> 0,
     neg_peak |-> 0, neg_sum |-> 0, neg_count |-> 0]

\* One iteration of `for &sample in chunk`.
Accumulate(acc, sample) ==
    IF sample > 0
    THEN [acc EXCEPT !.pos_peak = MaxF(@, sample),
                     !.pos_sum = @ + sample,
                     !.pos_count = @ + 1]
    ELSE IF sample < 0
    THEN LET magnitude == -sample
         IN [acc EXCEPT !.neg_peak = MaxF(@, magnitude),
                        !.neg_sum = @ + magnitude,
                        !.neg_count = @ + 1]
    ELSE acc

\* The loop over a chunk, from its k-th sample on.
RECURSIVE ChunkLoop(_, _, _)
ChunkLoop(chunk, k, acc) ==
    IF k > Len(chunk) THEN acc
    ELSE ChunkLoop(chunk, k + 1, Accumulate(acc, chunk[k]))

\* pos_level / neg_level of a chunk from the peak, sum and count of a polarity.
Level(pk, sum, count) ==
    IF count > 0
    THEN LET avg == RoundDiv(sum, count)
         IN MulF(Lit(75, 100), pk) + MulF(Lit(25, 100), avg)
    ELSE 0

\* The band (pos_level, neg_level) of a non-empty chunk.
Band(chunk) ==
    LET st == ChunkLoop(chunk, 1, ChunkInit)
    IN <<Level(st.pos_peak, st.pos_sum, st.pos_count),
         Level(st.neg_peak, st.neg_sum, st.neg_count)>>

\* chunk_size = ceil(len / NUM_BARS).
ChunkSize(len) == (len + NUM_BARS - 1) \div NUM_BARS

\* Variant with the fault of an inclusive chunk end (start..=end): every
\* chunk takes one sample of its successor.
BandAtInclusiveEnd(s, i) ==
    LET chunk_size == ChunkSize(Len(s))
        start == i * chunk_size
    IN IF start >= Len(s)
       THEN <<0, 0>>
       ELSE LET end == min(start + chunk_size + 1, Len(s))
                chunk == SubSeq(s, start + 1, end)
            IN IF chunk = <<>> THEN <<0, 0>> ELSE Band(chunk)

\* The pair iteration i of `for i in 0..NUM_BARS` pushes: (0, 0) for a band
\* that starts past the end of the buffer or whose chunk is empty, the band
\* of its chunk otherwise.
BandAt(s, i) ==
    LET chunk_size == ChunkSize(Len(s))
        start == i * chunk_size
    IN IF start >= Len(s)
       THEN <<0, 0>>
       ELSE LET end == min(start + chunk_size, Len(s))
                chunk == SubSeq(s, start + 1, end)
            IN IF chunk = <<>> THEN <<0, 0>> ELSE Band(chunk)

\* Variant with the fault of banding only the chunks the buffer fills
\* (samples.chunks(chunk_size)): a short buffer yields fewer than NUM_BARS.
ColumnsOfChunks(s) ==
    [k \in 1..min(NUM_BARS, (Len(s) + ChunkSize(Len(s)) - 1) \div ChunkSize(Len(s)))
        |-> BandAt(s, k - 1)]

\* The vector `columns` after the loop: every iteration pushes one pair.
Columns(s) == [k \in 1..NUM_BARS |-> BandAt(s, k - 1)]

\* frame_peak after the loop: 0.0, raised by max to the largest level pushed.
FramePeak(cols) ==
    LET levels == {0} \cup {MaxF(cols[k][1], cols[k][2]) : k \in 1..Len(cols)}
    IN CHOOSE m \in levels : \A l \in levels : m >= l

\* --------------------------------------------------------- Peak tracker

\* Variant with the fault of a peak that never decays.
UpdatePeakHold(p, fp) == IF fp > p THEN fp ELSE p

\* Variant with the fault of a smoothed attack: the release filter is applied
\* to louder frames too.
UpdatePeakSmoothed(p, fp) == MulF(p, DECAY) + MulF(fp, SCALE - DECAY)

\* Variant with the fault of swapped release weights.
UpdatePeakSwapped(p, fp) ==
    IF fp > p THEN fp
    ELSE MulF(p, SCALE - DECAY) + MulF(fp, DECAY)

\* Instant attack, slow decay of the stored peak.
UpdatePeak(p, fp) ==
    IF fp > p THEN fp
    ELSE MulF(p, DECAY) + MulF(fp, SCALE - DECAY)

\* Variant with the fault of a missing floor.
EffectivePeakUnfloored(p) == p

\* let peak = self.peak.max(1e-3): the denominator of the normalisation.
EffectivePeak(p) == MaxF(p, PEAK_FLOOR)

\* ------------------------------------------------------------- Smoother

\* The reset of a previous-state vector whose length is not NUM_BARS.
ResetPrev(prev) ==
    IF Len(prev) # NUM_BARS THEN [i \in 1..NUM_BARS |-> <<0, 0>>] ELSE prev

\* (level / peak).clamp(0.0, 1.0).
Normalize(level, pk) == Clamp(DivF(level, pk), 0, SCALE)

\* Variant with the fault of swapped blend weights.
BlendSwapped(n, prev) == MulF(SCALE - blend, n) + MulF(blend, prev)

\* Variant with the fault of an unweighted previous value.
BlendNoComplement(n, prev) == MulF(blend, n) + prev

\* blend * norm + (1.0 - blend) * prev.
Blend(n, prev) == MulF(blend, n) + MulF(SCALE - blend, prev)

\* The normalised pair of every band.
Norms(cols, pk) ==
    [i \in 1..Len(cols) |->
        <<Normalize(cols[i][1], pk), Normalize(cols[i][2], pk)>>]

\* columns.iter().zip(prev_columns.iter()).map(..).collect(): as long as the
\* shorter of the two.
Smoothed(norms, prev) ==
    [i \in 1..min(Len(norms), Len(prev)) |->
        <<Blend(norms[i][1], prev[i][1]), Blend(norms[i][2], prev[i][2])>>]

\* ------------------------------------------------------- Frame composer

BLANK == " "
DIVIDER == "-"
NEWLINE == "LF"

\* The least level, in units, whose level.powf(0.6) reaches 0.2, 0.4, 0.6
\* and 0.8: powf(0.6) is increasing, so scaled < t iff level < t^(1/0.6).
ColorCut == <<684, 2172, 4269, 6895>>

\* The colour escape of a level: the 256-colour index it selects.
color_for(level) ==
    IF level < ColorCut[1] THEN "39"
    ELSE IF level < ColorCut[2] THEN "48"
    ELSE IF level < ColorCut[3] THEN "190"
    ELSE IF level < ColorCut[4] THEN "208"
    ELSE "196"

Colors == {"39", "48", "190", "208", "196"}

\* (level * top_rows as f32).round() as usize.
RowsOf(level) ==
    LET r == RoundDiv(level * top_rows, SCALE) IN IF r < 0 THEN 0 ELSE r

\* usize::saturating_sub.
saturating_sub(a, b) == IF a >= b THEN a - b ELSE 0

\* Variant with the fault of upper bars that hang from the top row.
UpperFilledFromTop(row, pos_rows) == row < pos_rows

\* Whether the cell of a row is filled in the upper half.
UpperFilled(row, pos_rows) == row >= saturating_sub(top_rows, pos_rows)

\* Whether the cell of a row is filled in the lower half.
LowerFilled(row, neg_rows) == (row - mid_row - 1) < neg_rows

\* The cell a column contributes to a row: a filled cell is the colour
\* escape, the block glyph and the reset, written as its colour.
Cell(row, pos, neg) ==
    IF row < mid_row
    THEN IF UpperFilled(row, RowsOf(pos)) THEN color_for(pos) ELSE BLANK
    ELSE IF row = mid_row
    THEN DIVIDER
    ELSE IF LowerFilled(row, RowsOf(neg)) THEN color_for(neg) ELSE BLANK

\* The rows the composer writes.
FrameRows == 0..(TOTAL_ROWS - 1)

\* The string `frame`: row after row, the cells of the row and a line break.
Compose(smoothed) ==
    LET w == Len(smoothed) + 1
    IN [k \in 1..(Cardinality(FrameRows) * w) |->
          LET row == (k - 1) \div w
              col == (k - 1) % w
          IN IF col = w - 1 THEN NEWLINE
             ELSE Cell(row, smoothed[col + 1][1], smoothed[col + 1][2])]

\* --------------------------------------------------------------- render

\* Visualizer::new().
Init ==
    /\ peak = INITIAL_PEAK
    /\ prev_columns = <<>>
    /\ stdout = [cleared |-> 0, frames |-> 0, screen |-> <<>>]
    /\ panicked = FALSE
    /\ samples = <<>>
    /\ columns = <<>>
    /\ frame_peak = 0
    /\ eff_peak = INITIAL_PEAK
    /\ norm = <<>>
    /\ calls = 0
    /\ zero_p0 = INITIAL_PEAK
    /\ zero_n = 0
    /\ first_norm = <<>>
    /\ steady = <<>>

\* Variant with the fault of a missing empty-buffer check.
IsEmptyNever(s) == FALSE

\* samples.is_empty().
IsEmpty(s) == Len(s) = 0

\* The early return of render on an empty buffer: nothing is touched.
ReturnEarly(s) ==
    /\ samples' = s
    /\ UNCHANGED <<peak, prev_columns, stdout, panicked, columns, frame_peak,
                   eff_peak, norm, calls, zero_p0, zero_n, first_norm, steady>>

\* What the observers of the call record: the run of silent frames and the
\* bands whose normalised level never changed since the first call.
Observe ==
    /\ calls' = calls + 1
    /\ zero_n' = IF frame_peak' = 0 THEN zero_n + 1 ELSE 0
    /\ zero_p0' = IF frame_peak' = 0 THEN zero_p0 ELSE peak'
    /\ first_norm' = IF calls = 0 THEN norm' ELSE first_norm
    /\ steady' = [i \in 1..Len(norm') |->
                    IF calls = 0 THEN <<TRUE, TRUE>>
                    ELSE <<steady[i][1] /\ norm'[i][1] = first_norm[i][1],
                           steady[i][2] /\ norm'[i][2] = first_norm[i][2]>>]

\* render on a non-empty buffer: clear the screen, band the samples, track
\* the peak, smooth against the previous frame, compose and print the frame.
\* copy_from_slice panics when the two slices differ in length, after the
\* screen was cleared and the peak stored.
RenderFrame(s) ==
    /\ samples' = s
    /\ columns' = Columns(s)
    /\ frame_peak' = FramePeak(columns')
    /\ peak' = UpdatePeak(peak, frame_peak')
    /\ eff_peak' = EffectivePeak(peak')
    /\ norm' = Norms(columns', eff_peak')
    /\ LET prev == ResetPrev(prev_columns)
           smoothed == Smoothed(norm', prev)
       IN IF Len(smoothed) = Len(prev)
          THEN /\ prev_columns' = smoothed
               /\ panicked' = FALSE
               /\ stdout' = [cleared |-> stdout.cleared + 1,
                             frames |-> stdout.frames + 1,
                             screen |-> Compose(prev_columns')]
          ELSE /\ prev_columns' = prev
               /\ panicked' = TRUE
               /\ stdout' = [stdout EXCEPT !.cleared = @ + 1]
    /\ Observe

\* Visualizer::render(samples).
Render(s) == IF IsEmpty(s) THEN ReturnEarly(s) ELSE RenderFrame(s)

\* --------------------------------------------------------------- inputs

\* n samples of silence.
Zeros(n) == [i \in 1..n |-> 0]

\* n samples alternating +1.0, -1.0.
Alternating(n) == [i \in 1..n |-> IF i % 2 = 1 THEN SCALE ELSE -SCALE]

\* n samples of alternating sign whose magnitude rises to 1.0.
Ramp(n) ==
    [i \in 1..n |-> IF i % 2 = 1 THEN RoundDiv(i * SCALE, n)
                    ELSE -RoundDiv(i * SCALE, n)]

\* The decoded buffers handed to render: empty, silence, full scale, a
\* length that 64 does not divide, a ramp, and buffers shorter than 64.
Buffers ==
    { <<>>, Zeros(1000), Alternating(64), Alternating(100), Ramp(128),
      <<5011, -2500, 0>>, <<Lit(1, 2)>> }

\* A buffer without a non-zero sample.
Silent(s) == \A i \in 1..Len(s) : s[i] = 0

\* Non-empty render calls of a run.
MaxCalls == 3

\* Non-empty render calls of a long run, and how many of them, at its start,
\* may carry sound.
MaxLongCalls == 70
MaxLoud == 1

\* The decode loop hands one buffer after another to render.
Next ==
    /\ ~panicked
    /\ calls < MaxCalls
    /\ \E s \in Buffers : Render(s)

Spec == Init /\ [][Next]_vars

\* A long run: sound in the first calls, then silence.
NextLong ==
    /\ ~panicked
    /\ calls < MaxLongCalls
    /\ \E s \in (IF calls < MaxLoud THEN Buffers
                 ELSE {b \in Buffers : Silent(b)}) : Render(s)

SpecLong == Init /\ [][NextLong]_vars

\* ---------------------------------------------------------------- claims

\* A cell that holds a coloured block.
Filled(cell) == cell \in Colors

\* The cell of row r (0-based) and column c (1-based) of a printed frame.
CellAt(screen, r, c) == screen[r * (NUM_BARS + 1) + c]

\* No cell of the frame is filled.
NoFilledCell(screen) == \A k \in 1..Len(screen) : ~Filled(screen[k])

\* Units of the finer scale on which the closed forms are evaluated.
FINE == SCALE \div 10

AbsDiff(a, b) == IF a >= b THEN a - b ELSE b - a

\* C1 as stated: after any sequence of render calls the stored peak is never
\* below 1e-3.
C1_StoredPeakFloored == peak >= PEAK_FLOOR

\* C1, amended: after any sequence of render calls the peak that normalises
\* the levels (the stored peak floored at 1e-3) is never below 1e-3, and the
\* stored peak stays positive; the stored peak itself is not floored.
C1_EffectivePeakFloored ==
    /\ peak > 0
    /\ eff_peak >= PEAK_FLOOR
    /\ eff_peak >= peak

\* C1's case: silence has taken the stored peak below the floor.
C1_Witness == calls > 0 /\ peak < PEAK_FLOOR /\ eff_peak = PEAK_FLOOR

\* C2: a render call with an empty buffer leaves peak and prev_columns as
\* they were and writes nothing to the display sink, not even the
\* clear-screen prefix.
C2_EmptyIsNoOp ==
    [][Len(samples') = 0 =>
          /\ peak' = peak
          /\ prev_columns' = prev_columns
          /\ stdout' = stdout]_vars

\* C2's case: an empty buffer was rendered after frames had been drawn.
C2_Witness == Len(samples) = 0 /\ calls > 0 /\ Len(prev_columns) = NUM_BARS

\* The first call of a fresh renderer got 64 samples alternating +1.0, -1.0.
C3_Scenario == calls = 1 /\ samples = Alternating(64)

\* C3 as stated: in that call frame_peak is 1.0, the stored peak becomes 1.0,
\* every band's normalised level is 1.0 for both polarities and every band's
\* smoothed value is 0.65 for both polarities.
C3_BothPolarities ==
    C3_Scenario =>
        /\ frame_peak = SCALE
        /\ peak = SCALE
        /\ \A k \in 1..NUM_BARS :
              /\ norm[k] = <<SCALE, SCALE>>
              /\ prev_columns[k] = <<Lit(65, 100), Lit(65, 100)>>

\* C3, amended: in that call frame_peak is 1.0 and the stored peak becomes
\* 1.0; every band holds one sample, so its normalised level is 1.0 for the
\* polarity of that sample and 0 for the other, and its smoothed value is
\* 0.65 for that polarity and 0 for the other (positive for the bands of
\* even index, negative for those of odd index).
C3_OnePolarityPerBand ==
    C3_Scenario =>
        /\ frame_peak = SCALE
        /\ peak = SCALE
        /\ \A k \in 1..NUM_BARS :
              IF (k - 1) % 2 = 0
              THEN /\ norm[k] = <<SCALE, 0>>
                   /\ prev_columns[k] = <<Lit(65, 100), 0>>
              ELSE /\ norm[k] = <<0, SCALE>>
                   /\ prev_columns[k] = <<0, Lit(65, 100)>>

\* C3's case: the scenario has run and its frame is on the screen.
C3_Witness == C3_Scenario /\ stdout.frames = 1

\* C4 as stated: whenever render is called with 1000 zero samples, in any
\* reachable state, all bands are (0,0), frame_peak is 0 and the frame holds
\* the divider line and no filled cell.
C4_SilenceBlanksFrame ==
    (calls > 0 /\ samples = Zeros(1000)) =>
        /\ \A k \in 1..NUM_BARS : columns[k] = <<0, 0>>
        /\ frame_peak = 0
        /\ NoFilledCell(stdout.screen)

\* Every stored previous value is zero (or none is stored yet).
PrevAllZero == \A k \in 1..Len(prev_columns) : prev_columns[k] = <<0, 0>>

\* C4, amended: whenever render is called with 1000 zero samples, all 64
\* bands are (0,0), frame_peak is 0, the stored peak takes the decay branch
\* (it becomes 0.92 times itself), every smoothed value is 0.35 times the
\* stored previous one, and the frame holds no filled cell when the stored
\* previous values were all zero (a fresh renderer); bars of earlier frames
\* otherwise fade over the following frames.
C4_SilenceDecays ==
    [][samples' = Zeros(1000) =>
          /\ \A k \in 1..NUM_BARS : columns'[k] = <<0, 0>>
          /\ frame_peak' = 0
          /\ peak' = MulF(peak, Lit(92, 100))
          /\ peak' <= peak
          /\ \A k \in 1..Len(prev_columns) :
                /\ prev_columns'[k][1] = MulF(Lit(35, 100), prev_columns[k][1])
                /\ prev_columns'[k][2] = MulF(Lit(35, 100), prev_columns[k][2])
          /\ PrevAllZero => NoFilledCell(stdout'.screen)
          /\ \A c \in 1..NUM_BARS : stdout'.screen[mid_row * (NUM_BARS + 1) + c] = DIVIDER
      ]_vars

\* C4's case: silence rendered onto a renderer whose bars had faded out.
C4_Witness ==
    /\ calls >= 2
    /\ samples = Zeros(1000)
    /\ peak < INITIAL_PEAK
    /\ NoFilledCell(stdout.screen)

\* C5: in every non-empty render call, each normalised level and each smoothed
\* value written to prev_columns and handed to the composer lies in [0, 1].
C5_LevelsInUnitRange ==
    /\ \A k \in 1..Len(norm) : \A j \in 1..2 :
          norm[k][j] >= 0 /\ norm[k][j] <= SCALE
    /\ \A k \in 1..Len(prev_columns) : \A j \in 1..2 :
          prev_columns[k][j] >= 0 /\ prev_columns[k][j] <= SCALE

\* C5's case: a full-scale level was blended onto a bar that already stood.
C5_Witness ==
    /\ calls >= 2
    /\ \E k \in 1..Len(norm) :
          /\ norm[k][1] = SCALE
          /\ prev_columns[k][1] > Lit(65, 100)
          /\ prev_columns[k][1] < SCALE

\* The frame is TOTAL_ROWS lines of NUM_BARS cells, each line ended by a
\* line break.
WellShaped(screen) ==
    /\ Len(screen) = MAX_HEIGHT * (NUM_BARS + 1)
    /\ \A k \in 1..Len(screen) :
          IF k % (NUM_BARS + 1) = 0
          THEN screen[k] = NEWLINE
          ELSE screen[k] \in Colors \cup {BLANK, DIVIDER}

\* C6: for any non-empty buffer, of any length, the band vector has exactly
\* 64 entries and the frame printed has exactly 21 lines, each of exactly 64
\* cells and a line break.
C6_Shape ==
    calls > 0 =>
        /\ Len(columns) = NUM_BARS
        /\ Len(prev_columns) = NUM_BARS
        /\ ~panicked
        /\ stdout.frames = calls
        /\ WellShaped(stdout.screen)

\* C6's case: a buffer shorter than 64 samples was rendered after one whose
\* length 64 does not divide.
C6_Witness ==
    /\ calls >= 2
    /\ Len(samples) > 0
    /\ Len(samples) < NUM_BARS
    /\ \E k \in 1..NUM_BARS : prev_columns[k][1] > 0 /\ columns[k] = <<0, 0>>
    /\ columns[1] # <<0, 0>>

\* C7: in a non-empty render call whose frame_peak is strictly greater than
\* the stored peak, the stored peak after the call is exactly frame_peak.
C7_InstantAttack ==
    [][(Len(samples') > 0 /\ frame_peak' > peak) => peak' = frame_peak']_vars

\* C7's case: the first frame was louder than the initial peak of 0.25.
C7_Witness ==
    /\ calls = 1
    /\ Len(samples) > 0
    /\ frame_peak > INITIAL_PEAK
    /\ peak = frame_peak

\* p0 * 0.92^n on the finer scale.
RECURSIVE IdealDecay(_, _)
IdealDecay(p0, n) ==
    IF n = 0 THEN p0 * FINE ELSE RoundDiv(IdealDecay(p0, n - 1) * 92, 100)

\* The rounding the n products of a run may add up to, on the finer scale:
\* half a unit per frame, damped by 0.92 per frame, so never more than 6.25
\* units, and 7 fine units for the closed form itself.
DecayTolerance(n) == (IF n < 13 THEN n ELSE 13) * (FINE \div 2) + 7

\* C8: from stored peak p0, after n consecutive non-empty calls with
\* frame_peak = 0 the stored peak is p0 * 0.92^n, to within the rounding of
\* the n multiplications.
C8_DecayClosedForm ==
    AbsDiff(peak * FINE, IdealDecay(zero_p0, zero_n)) <= DecayTolerance(zero_n)

\* C8's case: a long run of silence after a full-scale frame.
C8_Witness == zero_n >= 20 /\ zero_p0 = SCALE

\* x * 0.35^k on the finer scale.
RECURSIVE IdealResidue(_, _)
IdealResidue(x, k) ==
    IF k = 0 THEN x * FINE ELSE RoundDiv(IdealResidue(x, k - 1) * 35, 100)

\* x * (1 - 0.35^k) on the finer scale.
IdealSmooth(x, k) == x * FINE - IdealResidue(x, k)

\* The value the blend of a call read for band k, polarity j: the stored one,
\* or 0 after the reset of a vector of the wrong length.
PrevValue(k, j) == IF Len(prev_columns) # NUM_BARS THEN 0 ELSE prev_columns[k][j]

\* C9: for a band whose normalised input is the same x in every frame since
\* the fresh renderer, after k non-empty calls the stored value is
\* x * (1 - 0.35^k), it never decreases from one frame to the next, and it
\* does not exceed x; all to within the rounding of the two products of a
\* blend (one unit each, damped by 0.35 per frame: under two units).
C9_SmoothingClosedForm ==
    [][Len(samples') > 0 =>
          \A k \in 1..NUM_BARS : \A j \in 1..2 :
              steady'[k][j] =>
                  /\ AbsDiff(prev_columns'[k][j] * FINE,
                             IdealSmooth(first_norm'[k][j], calls')) <= 2 * FINE
                  /\ prev_columns'[k][j] >= PrevValue(k, j)
                  /\ prev_columns'[k][j] <= first_norm'[k][j] + 1
      ]_vars

\* C9's case: three frames in which a band's normalised input stayed at one
\* value strictly between 0 and 1.
C9_Witness ==
    /\ calls = 3
    /\ \E k \in 1..NUM_BARS :
          /\ steady[k][1]
          /\ first_norm[k][1] > 0
          /\ first_norm[k][1] < SCALE
          /\ first_norm[k][1] % 100 # 0

\* The number of filled cells of column c among the rows of a set.
FilledIn(screen, rows, c) ==
    Cardinality({r \in rows : Filled(CellAt(screen, r, c))})

\* C10: in every printed frame, for each column with smoothed (pos, neg),
\* pos_rows = round(pos * 10) and neg_rows = round(neg * 10): row r of the
\* upper half (0..9) is filled iff r >= 10 - pos_rows, row 10 is the divider,
\* row r of the lower half (11..20) is filled iff r - 11 < neg_rows; so each
\* half holds one run of pos_rows (neg_rows) filled cells next to the divider.
C10_RowFill ==
    calls > 0 =>
        \A c \in 1..NUM_BARS :
            LET pos_rows == (prev_columns[c][1] * 10 + SCALE \div 2) \div SCALE
                neg_rows == (prev_columns[c][2] * 10 + SCALE \div 2) \div SCALE
            IN /\ \A r \in 0..9 :
                     Filled(CellAt(stdout.screen, r, c)) <=> r >= 10 - pos_rows
               /\ CellAt(stdout.screen, 10, c) = DIVIDER
               /\ \A r \in 11..20 :
                     Filled(CellAt(stdout.screen, r, c)) <=> r - 11 < neg_rows
               /\ FilledIn(stdout.screen, 0..9, c) = pos_rows
               /\ FilledIn(stdout.screen, 11..20, c) = neg_rows

\* C10's case: a frame with a column partly filled in both halves, by
\* different amounts.
C10_Witness ==
    /\ calls > 0
    /\ \E c \in 1..NUM_BARS :
          /\ FilledIn(stdout.screen, 0..9, c) \in 1..9
          /\ FilledIn(stdout.screen, 11..20, c) \in 1..9
          /\ FilledIn(stdout.screen, 0..9, c) # FilledIn(stdout.screen, 11..20, c)

====
